---- MODULE Spec2Model ----
(***************************************************************************)
(* Invoice / ledger backend of src/app.py: the running-balance ledger and  *)
(* the FIFO stock allocator, modelled over the SQLite tables the handlers  *)
(* read and write.                                                         *)
(*                                                                         *)
(* Money is held in thousandths of a currency unit (10 = 0.01), so that    *)
(* Python's round(x, 2) is a real operation (Round2).  Dates are day       *)
(* numbers: the code compares ISO 'YYYY-MM-DD' texts, which order the same *)
(* way.  Invoice numbers are texts, held as sequences of character codes   *)
(* (0..9 are the digits), so that CAST(invoice_number AS INTEGER) is a     *)
(* real conversion (CastInt).                                              *)
(***************************************************************************)
EXTENDS Integers, Sequences, FiniteSets, TLC

VARIABLES parties, invoices, invoice_items, payments, adjustments, stock,
          nextInvoiceId, nextPaymentId, nextStockId, resp, prior, requests,
          inflight

vars == <<parties, invoices, invoice_items, payments, adjustments, stock,
          nextInvoiceId, nextPaymentId, nextStockId, resp, prior, requests,
          inflight>>

(***************************************************************************)
(* Bounds of the exploration.                                              *)
(***************************************************************************)
MaxInvoiceId == 3
MaxPaymentId == 1
MaxAdjustments == 2
MaxStockId == 2
MaxDeductItems == 2
MaxAddItems == 2
\* number of requests served in one exploration of the ledger, of the stock
MaxRequests == 3
MaxStockRequests == 2
\* number of requests served in one exploration of a single party's chain
MaxChainRequests == 4
\* number of requests begun in one exploration of two requests in flight
MaxInflightRequests == 3

PartyNames == {"Acme", "Beta"}
Dates == {1, 2}
InvoiceNumbers == {<<3, 0>>, <<3, 1>>}
\* an item sent without a productName (invoice_items.product_name is NOT NULL),
\* held in an item list in the place of its amount
NoProductName == -1
\* caller-supplied item amount lists; <<>> is the rejected empty list
ItemLists == {<<>>, <<100>>, <<24, 30>>, <<100, NoProductName>>}
PaymentAmounts == {0, 64}
OpeningBalances == {50, 54}
ProductNames == {"Ghee", "Oil"}
BatchQuantities == {5}
DeductQuantities == {3, 7}

NoInvoice == <<>>

(***************************************************************************)
(* Pure helpers.                                                           *)
(***************************************************************************)
\* round(x, 2) of Python on an exact decimal: nearest hundredth, ties to even
Round2(x) ==
    LET r == x % 10
        base == x - r
    IN  IF r < 5 THEN base
        ELSE IF r > 5 THEN base + 10
        ELSE IF (base \div 10) % 2 = 0 THEN base ELSE base + 10

RECURSIVE DigitPrefix(_, _)
DigitPrefix(s, acc) ==
    IF s = <<>> \/ Head(s) > 9 THEN acc
    ELSE DigitPrefix(Tail(s), acc * 10 + Head(s))

\* CAST(invoice_number AS INTEGER): the value of the leading digits, else 0
CastInt(s) == DigitPrefix(s, 0)

\* a total that takes the first item only
FirstAmount(s) == IF s = <<>> THEN 0 ELSE Head(s)

RECURSIVE SumSeq(_)
SumSeq(s) == IF s = <<>> THEN 0 ELSE Head(s) + SumSeq(Tail(s))

\* SELECT SUM(total_amount) over a set of invoice rows (NULL read as 0)
RECURSIVE SumTotals(_)
SumTotals(S) ==
    IF S = {} THEN 0
    ELSE LET r == CHOOSE x \in S : TRUE
         IN  r.total_amount + SumTotals(S \ {r})

\* SELECT SUM(amount) over a set of payment rows (NULL read as 0)
RECURSIVE SumAmounts(_)
SumAmounts(S) ==
    IF S = {} THEN 0
    ELSE LET r == CHOOSE x \in S : TRUE
         IN  r.amount + SumAmounts(S \ {r})

\* an opening balance read as 0 whatever the party row holds
NoInitialBalance(P, p) == 0

\* initial_opening_balance of a party row, 0 when the row is absent
InitialBalance(P, p) == IF p \in DOMAIN P THEN P[p] ELSE 0

InvoicesOf(I, p) == {i \in I : i.party_name = p}
PaymentsOf(Y, p) == {y \in Y : y.party_name = p}

\* a balance that leaves the payments out
balance_without_payments(P, I, Y, p) ==
    Round2(InitialBalance(P, p) + SumTotals(InvoicesOf(I, p)))

calculate_current_party_balance(P, I, Y, p) ==
    Round2(InitialBalance(P, p) + SumTotals(InvoicesOf(I, p))
           - SumAmounts(PaymentsOf(Y, p)))

\* a sweep that also takes the invoice on the cutoff
AtOrAfterCutoff(i, d, n) ==
    i.date > d \/ (i.date = d /\ CastInt(i.invoice_number) >= CastInt(n))

\* the cutoff order of update_subsequent_invoice_balances
AfterCutoff(i, d, n) ==
    i.date > d \/ (i.date = d /\ CastInt(i.invoice_number) > CastInt(n))
\* a sum of the invoices before the cutoff that also takes the one on it
NotAfterCutoff(i, d, n) ==
    i.date < d \/ (i.date = d /\ CastInt(i.invoice_number) <= CastInt(n))

BeforeCutoff(i, d, n) ==
    i.date < d \/ (i.date = d /\ CastInt(i.invoice_number) < CastInt(n))

\* an order that follows the grand totals stored in the rows
RowLeqByGrandTotal(a, b) ==
    \/ a.grand_total > b.grand_total
    \/ (a.grand_total = b.grand_total /\ a.id <= b.id)

\* ORDER BY date ASC, CAST(invoice_number AS INTEGER) ASC (row id last)
RowLeq(a, b) ==
    \/ a.date < b.date
    \/ a.date = b.date /\ CastInt(a.invoice_number) < CastInt(b.invoice_number)
    \/ a.date = b.date /\ CastInt(a.invoice_number) = CastInt(b.invoice_number)
       /\ a.id <= b.id

RECURSIVE SweepKeepsGrandTotal(_, _, _)
\* a sweep that rewrites previous_balance and leaves the stored grand_total
SweepKeepsGrandTotal(I, todo, running) ==
    IF todo = {} THEN I
    ELSE LET r == CHOOSE x \in todo : \A y \in todo : RowLeq(x, y)
             new == [r EXCEPT !.previous_balance = running]
         IN  SweepKeepsGrandTotal((I \ {r}) \cup {new}, todo \ {r},
                                  running + r.total_amount)

RECURSIVE Sweep(_, _, _)
\* the loop of update_subsequent_invoice_balances over the rows still to visit
Sweep(I, todo, running) ==
    IF todo = {} THEN I
    ELSE LET r == CHOOSE x \in todo : \A y \in todo : RowLeq(x, y)
             new == [r EXCEPT !.previous_balance = running,
                              !.grand_total = running + r.total_amount]
         IN  Sweep((I \ {r}) \cup {new}, todo \ {r}, new.grand_total)

\* no recalculation at all: the table is left as the mutation wrote it
no_recalculation(P, I, Y, p, d, n) == I

update_subsequent_invoice_balances(P, I, Y, p, d, n) ==
    LET subsequent == {i \in InvoicesOf(I, p) : AfterCutoff(i, d, n)}
        before == {i \in InvoicesOf(I, p) : BeforeCutoff(i, d, n)}
        paid == {y \in PaymentsOf(Y, p) : y.date <= d}
        start == InitialBalance(P, p) + SumTotals(before) - SumAmounts(paid)
    IN  Sweep(I, subsequent, start)

\* a failure path that keeps the pending writes
keep_pending(committed, pending) == pending

\* conn.rollback(): the committed table stands, the pending writes are lost
rollback(committed, pending) == committed

\* an auto-created party that starts with a balance of its own
EnsurePartyWithBalance(P, p) == IF p \in DOMAIN P THEN P ELSE P @@ (p :> 100)

\* INSERT INTO parties (name, initial_opening_balance) VALUES (?, 0.0), when
\* the SELECT found no row of that name
EnsureParty(P, p) == IF p \in DOMAIN P THEN P ELSE P @@ (p :> 0)

\* the answer to the last request: what was asked (op, and the invoice number
\* and party where the claims need them), the HTTP status, the balance or
\* grand total returned, and the collected error messages
Response(op, status, num, party, value, errors) ==
    [op |-> op, status |-> status, num |-> num, party |-> party,
     value |-> value, errors |-> errors]

\* the stored balance fields of a party's invoices, by invoice number
Chain(I, p) ==
    {[invoice_number |-> i.invoice_number,
      previous_balance |-> i.previous_balance,
      grand_total |-> i.grand_total] : i \in InvoicesOf(I, p)}

\* what the last request was given, kept where a later request or a claim
\* refers back to it (a deleted invoice and the chain before; a deduction's
\* items)
NoPrior == [stage |-> "none", num |-> NoInvoice, party |-> "", date |-> 0, items |-> <<>>,
            rows |-> {}]

\* the request threads of the server, and what a thread holds of the request
\* it is serving between its reads and its commit: the request, what its
\* SELECTs returned, and the status of the last request it answered
Workers == {1, 2}
NoRequest == [pc |-> "idle", op |-> "none", party |-> "", date |-> 0,
              num |-> NoInvoice, items |-> <<>>, id |-> 0,
              party_exists |-> FALSE, previous_balance |-> 0, status |-> 0]

(***************************************************************************)
(* Initial state: the tables init_db creates, all empty.                   *)
(***************************************************************************)
Init ==
    /\ parties = <<>>
    /\ invoices = {}
    /\ invoice_items = <<>>
    /\ payments = {}
    /\ adjustments = <<>>
    /\ stock = {}
    /\ nextInvoiceId = 1
    /\ nextPaymentId = 1
    /\ nextStockId = 1
    /\ resp = Response("init", 0, NoInvoice, "", 0, <<>>)
    /\ prior = NoPrior
    /\ requests = 0
    /\ inflight = [w \in Workers |-> NoRequest]

(***************************************************************************)
(* Ledger handlers.  Each action is one request: its writes are committed  *)
(* together or, on a failure path, not at all.                             *)
(***************************************************************************)
RowOf(I, n) == CHOOSE i \in I : i.invoice_number = n
\* the INSERT INTO invoice_items loop meets an item that violates NOT NULL
Malformed(items) == \E k \in DOMAIN items : items[k] = NoProductName
\* the amounts of the items that carry one
Amounts(items) == SelectSeq(items, LAMBDA a : a # NoProductName)
Exists(I, n) == \E i \in I : i.invoice_number = n

\* POST /api/invoices
create_invoice_api(p, d, n, items) ==
    IF items = <<>> THEN
        /\ resp' = Response("create", 400, n, p, 0, <<>>)
        /\ prior' = NoPrior
        /\ UNCHANGED <<parties, invoices, invoice_items, payments,
                       adjustments, stock, nextInvoiceId, nextPaymentId,
                       nextStockId>>
    ELSE IF Exists(invoices, n) THEN
        \* UNIQUE constraint failed after the party insert: IntegrityError
        /\ parties' = rollback(parties, EnsureParty(parties, p))
        /\ resp' = Response("create", 409, n, p, 0, <<>>)
        /\ prior' = NoPrior
        /\ UNCHANGED <<invoices, invoice_items, payments,
                       adjustments, stock, nextInvoiceId, nextPaymentId,
                       nextStockId>>
    ELSE IF Malformed(items) THEN
        \* NOT NULL constraint failed after the party and invoice inserts:
        \* IntegrityError, answered 409 as well
        LET P1 == EnsureParty(parties, p)
            total_amount == Round2(SumSeq(Amounts(items)))
            previous_balance ==
                calculate_current_party_balance(P1, invoices, payments, p)
            row == [id |-> nextInvoiceId, invoice_number |-> n,
                    party_name |-> p, date |-> d,
                    total_amount |-> total_amount,
                    previous_balance |-> previous_balance,
                    grand_total |-> previous_balance + total_amount]
        IN  /\ parties' = rollback(parties, P1)
            /\ invoices' = rollback(invoices, invoices \cup {row})
            /\ nextInvoiceId' = rollback(nextInvoiceId, nextInvoiceId + 1)
            /\ resp' = Response("create", 409, n, p, 0, <<>>)
            /\ prior' = NoPrior
            /\ UNCHANGED <<invoice_items, payments, adjustments, stock,
                           nextPaymentId, nextStockId>>
    ELSE
        LET P1 == EnsureParty(parties, p)
            total_amount == Round2(SumSeq(items))
            previous_balance ==
                calculate_current_party_balance(P1, invoices, payments, p)
            grand_total == previous_balance + total_amount
            row == [id |-> nextInvoiceId, invoice_number |-> n,
                    party_name |-> p, date |-> d,
                    total_amount |-> total_amount,
                    previous_balance |-> previous_balance,
                    grand_total |-> grand_total]
        IN  /\ nextInvoiceId <= MaxInvoiceId
            /\ parties' = P1
            /\ invoices' = invoices \cup {row}
            /\ invoice_items' = invoice_items @@ (nextInvoiceId :> items)
            /\ nextInvoiceId' = nextInvoiceId + 1
            /\ resp' = Response("create", 201, n, p, grand_total, <<>>)
            /\ prior' = IF /\ prior.stage = "deleted" /\ prior.num = n
                           /\ prior.party = p /\ prior.date = d
                           /\ prior.items = items
                        THEN [prior EXCEPT !.stage = "readded"]
                        ELSE NoPrior
            /\ UNCHANGED <<payments, adjustments, stock, nextPaymentId,
                           nextStockId>>

\* an update that recomputes the balance before the invoice from the
\* invoices earlier in the chain of its current party
recomputed_previous_balance(I, id) ==
    LET row == CHOOSE i \in I : i.id = id
    IN  SumTotals({k \in InvoicesOf(I, row.party_name) :
                      RowLeq(k, row) /\ k # row})

\* SELECT previous_balance FROM invoices WHERE id = ?: the balance stored
\* with the invoice being updated
previous_balance_for_this_invoice(I, id) ==
    (CHOOSE i \in I : i.id = id).previous_balance

\* an update that recalculates after every change
always_cascade(new_total, old_total, old_party, party) == TRUE

\* the condition under which an update recalculates later invoices
cascade_needed(new_total, old_total, old_party, party) ==
    new_total # old_total \/ old_party # party

\* an invoice removed or rewritten without removing its item rows
keep_items(T, id) == T

\* DELETE FROM invoice_items WHERE invoice_id = ?
delete_items(T, id) == [k \in DOMAIN T \ {id} |-> T[k]]

\* PUT /api/invoices/<invoice_number_to_update>
update_invoice_api(n, p, d, items) ==
    IF items = <<>> THEN
        /\ resp' = Response("update", 400, n, p, 0, <<>>)
        /\ prior' = NoPrior
        /\ UNCHANGED <<parties, invoices, invoice_items, payments,
                       adjustments, stock, nextInvoiceId, nextPaymentId,
                       nextStockId>>
    ELSE IF ~Exists(invoices, n) THEN
        /\ resp' = Response("update", 404, n, p, 0, <<>>)
        /\ prior' = NoPrior
        /\ UNCHANGED <<parties, invoices, invoice_items, payments,
                       adjustments, stock, nextInvoiceId, nextPaymentId,
                       nextStockId>>
    ELSE IF Malformed(items) THEN
        \* NOT NULL constraint failed after the party insert, the invoice
        \* UPDATE and the DELETE of the old items: rollback, answered 500
        LET orig == RowOf(invoices, n)
            new_total_amount == Round2(SumSeq(Amounts(items)))
            upd == [orig EXCEPT !.party_name = p, !.date = d,
                                !.total_amount = new_total_amount,
                                !.grand_total =
                                    previous_balance_for_this_invoice(
                                        invoices, orig.id)
                                    + new_total_amount]
        IN  /\ parties' = rollback(parties,
                                   IF orig.party_name # p
                                   THEN EnsureParty(parties, p) ELSE parties)
            /\ invoices' = rollback(invoices, (invoices \ {orig}) \cup {upd})
            /\ invoice_items' =
                   rollback(invoice_items,
                            delete_items(invoice_items, orig.id))
            /\ resp' = Response("update", 500, n, p, 0, <<>>)
            /\ prior' = NoPrior
            /\ UNCHANGED <<payments, adjustments, stock, nextInvoiceId,
                           nextPaymentId, nextStockId>>
    ELSE
        LET orig == RowOf(invoices, n)
            P1 == IF orig.party_name # p THEN EnsureParty(parties, p)
                  ELSE parties
            new_total_amount == Round2(SumSeq(items))
            new_grand_total ==
                previous_balance_for_this_invoice(invoices, orig.id)
                + new_total_amount
            upd == [orig EXCEPT !.party_name = p, !.date = d,
                                !.total_amount = new_total_amount,
                                !.grand_total = new_grand_total]
            I1 == (invoices \ {orig}) \cup {upd}
            I2 == IF orig.party_name # p
                  THEN update_subsequent_invoice_balances(
                           P1, I1, payments, orig.party_name, orig.date,
                           orig.invoice_number)
                  ELSE I1
            I3 == IF cascade_needed(new_total_amount, orig.total_amount,
                                    orig.party_name, p)
                  THEN update_subsequent_invoice_balances(
                           P1, I2, payments, p, d, n)
                  ELSE I1
        IN  /\ parties' = P1
            /\ invoices' = I3
            /\ invoice_items' =
                   delete_items(invoice_items, orig.id) @@ (orig.id :> items)
            /\ resp' = Response("update", 200, n, p,
                                RowOf(I3, n).grand_total, <<>>)
            /\ prior' = NoPrior
            /\ UNCHANGED <<payments, adjustments, stock, nextInvoiceId,
                           nextPaymentId, nextStockId>>

\* a deletion that answers 200 whether or not the number is there
delete_invoice_unchecked(n) ==
    LET gone == {i \in invoices : i.invoice_number = n}
    IN  /\ invoices' = invoices \ gone
        /\ invoice_items' =
               [k \in DOMAIN invoice_items \ {i.id : i \in gone}
                   |-> invoice_items[k]]
        /\ resp' = Response("delete", 200, n, "", 0, <<>>)
        /\ prior' = NoPrior
        /\ UNCHANGED <<parties, payments, adjustments, stock,
                       nextInvoiceId, nextPaymentId, nextStockId>>

\* DELETE /api/invoices/<invoice_number_to_delete>
delete_invoice(n) ==
    IF ~Exists(invoices, n) THEN
        /\ resp' = Response("delete", 404, n, "", 0, <<>>)
        /\ prior' = NoPrior
        /\ UNCHANGED <<parties, invoices, invoice_items, payments,
                       adjustments, stock, nextInvoiceId, nextPaymentId,
                       nextStockId>>
    ELSE
        LET row == RowOf(invoices, n)
            I1 == invoices \ {row}
            I2 == update_subsequent_invoice_balances(
                      parties, I1, payments, row.party_name, row.date,
                      row.invoice_number)
        IN  /\ invoices' = I2
            /\ invoice_items' = delete_items(invoice_items, row.id)
            /\ resp' = Response("delete", 200, n, row.party_name,
                                calculate_current_party_balance(
                                    parties, I2, payments, row.party_name),
                                <<>>)
            /\ prior' = [stage |-> "deleted", num |-> n,
                         party |-> row.party_name, date |-> row.date,
                         items |-> invoice_items[row.id],
                         rows |-> Chain(invoices, row.party_name)]
            /\ UNCHANGED <<parties, payments, adjustments, stock,
                           nextInvoiceId, nextPaymentId, nextStockId>>

\* POST /api/payments
record_payment_api(p, amount, d) ==
    IF amount <= 0 THEN
        /\ resp' = Response("pay", 400, NoInvoice, "", 0, <<>>)
        /\ prior' = NoPrior
        /\ UNCHANGED <<parties, invoices, invoice_items, payments,
                       adjustments, stock, nextInvoiceId, nextPaymentId,
                       nextStockId>>
    ELSE
        LET P1 == EnsureParty(parties, p)
            Y1 == payments \cup {[id |-> nextPaymentId, party_name |-> p,
                                  amount |-> amount, date |-> d]}
        IN  /\ nextPaymentId <= MaxPaymentId
            /\ parties' = P1
            /\ payments' = Y1
            /\ nextPaymentId' = nextPaymentId + 1
            /\ resp' = Response("pay", 201, NoInvoice, p,
                                calculate_current_party_balance(
                                    P1, invoices, Y1, p), <<>>)
            /\ prior' = NoPrior
            /\ UNCHANGED <<invoices, invoice_items, adjustments, stock,
                           nextInvoiceId, nextStockId>>

\* DELETE /api/payments/<payment_id>
delete_payment(payment_id) ==
    IF ~\E y \in payments : y.id = payment_id THEN
        /\ resp' = Response("unpay", 404, NoInvoice, "", 0, <<>>)
        /\ prior' = NoPrior
        /\ UNCHANGED <<parties, invoices, invoice_items, payments,
                       adjustments, stock, nextInvoiceId, nextPaymentId,
                       nextStockId>>
    ELSE
        LET y == CHOOSE x \in payments : x.id = payment_id
            Y1 == payments \ {y}
        IN  /\ payments' = Y1
            /\ resp' = Response("unpay", 200, NoInvoice, y.party_name,
                                calculate_current_party_balance(
                                    parties, invoices, Y1, y.party_name),
                                <<>>)
            /\ prior' = NoPrior
            /\ UNCHANGED <<parties, invoices, invoice_items, adjustments,
                           stock, nextInvoiceId, nextPaymentId, nextStockId>>

\* a write that gives every known party the new opening balance
SetEveryInitialBalance(P, p, b) ==
    [q \in DOMAIN P \cup {p} |-> b]

\* INSERT the unknown party with the new opening balance, or UPDATE the row
\* of the known one
SetInitialBalance(P, p, b) ==
    IF p \in DOMAIN P THEN [P EXCEPT ![p] = b] ELSE P @@ (p :> b)

\* POST /api/parties/<party_name>/set-prev-balance
set_prev_balance(p, new_initial_balance) ==
    LET old_initial_balance == InitialBalance(parties, p)
        P1 == SetInitialBalance(parties, p, new_initial_balance)
    IN  /\ Len(adjustments) < MaxAdjustments
        /\ parties' = P1
        /\ adjustments' = Append(adjustments,
                                 [party |-> p,
                                  old_balance |-> old_initial_balance,
                                  new_balance |-> new_initial_balance])
        /\ resp' = Response("setbal", IF p \in DOMAIN parties THEN 200 ELSE 201,
                            NoInvoice, p,
                            calculate_current_party_balance(
                                P1, invoices, payments, p), <<>>)
        /\ prior' = NoPrior
        /\ UNCHANGED <<invoices, invoice_items, payments, stock,
                       nextInvoiceId, nextPaymentId, nextStockId>>

\* POST /api/admin/delete-all-data: init_db(clear_existing_data=True) drops
\* every table, the adjustment log included, and creates them empty again
\* (the AUTOINCREMENT counters go with the tables)
delete_all_data_api ==
    /\ parties' = <<>>
    /\ invoices' = {}
    /\ invoice_items' = <<>>
    /\ payments' = {}
    /\ adjustments' = <<>>
    /\ stock' = {}
    /\ nextInvoiceId' = 1
    /\ nextPaymentId' = 1
    /\ nextStockId' = 1
    /\ resp' = Response("wipe", 200, NoInvoice, "", 0, <<>>)
    /\ prior' = NoPrior

\* one more request has been served
Served ==
    /\ requests < MaxRequests
    /\ requests' = requests + 1
    /\ UNCHANGED inflight

CreateInvoice ==
    /\ Served
    /\ \E p \in PartyNames, d \in Dates, n \in InvoiceNumbers, items \in ItemLists :
        create_invoice_api(p, d, n, items)
UpdateInvoice ==
    /\ Served
    /\ \E n \in InvoiceNumbers, p \in PartyNames, d \in Dates, items \in ItemLists :
        update_invoice_api(n, p, d, items)
DeleteInvoice == Served /\ \E n \in InvoiceNumbers : delete_invoice(n)
RecordPayment ==
    /\ Served
    /\ \E p \in PartyNames, a \in PaymentAmounts, d \in Dates :
        record_payment_api(p, a, d)
DeletePayment == Served /\ \E k \in 1..MaxPaymentId : delete_payment(k)
SetOpeningBalance ==
    /\ Served
    /\ \E p \in PartyNames, b \in OpeningBalances : set_prev_balance(p, b)
DeleteAllData == Served /\ delete_all_data_api

Next ==
    \/ CreateInvoice
    \/ UpdateInvoice
    \/ DeleteInvoice
    \/ RecordPayment
    \/ DeletePayment
    \/ SetOpeningBalance
    \/ DeleteAllData

Spec == Init /\ [][Next]_vars

(***************************************************************************)
(* The chain of one party over three invoice numbers, two of which have    *)
(* the same integer value ("7" and "07"), so that a recalculation sweeps   *)
(* two invoices and meets an invoice located exactly on its cutoff.        *)
(***************************************************************************)
ChainParty == "Acme"
ChainNumbers == {<<7>>, <<0, 7>>, <<8>>}
ChainItemLists == {<<100>>, <<24, 30>>}
ChainPayments == {64}
ChainUpdateLists == {<<50>>}

ServedChain ==
    /\ requests < MaxChainRequests
    /\ requests' = requests + 1
    /\ UNCHANGED inflight

ChainCreate ==
    /\ ServedChain
    /\ \E d \in Dates, n \in ChainNumbers, items \in ChainItemLists :
           create_invoice_api(ChainParty, d, n, items)
ChainDelete == ServedChain /\ \E n \in ChainNumbers : delete_invoice(n)
ChainUpdate ==
    /\ ServedChain
    /\ \E n \in ChainNumbers, p \in PartyNames, d \in Dates,
          items \in ChainUpdateLists :
           update_invoice_api(n, p, d, items)
ChainPay ==
    /\ ServedChain
    /\ \E a \in ChainPayments, d \in Dates :
           record_payment_api(ChainParty, a, d)
ChainSetOpeningBalance ==
    /\ ServedChain
    /\ \E b \in OpeningBalances : set_prev_balance(ChainParty, b)

NextChain ==
    \/ ChainCreate
    \/ ChainUpdate
    \/ ChainDelete
    \/ ChainPay
    \/ ChainSetOpeningBalance

SpecChain == Init /\ [][NextChain]_vars

(***************************************************************************)
(* Two requests in flight.  Every request opens its own connection, and    *)
(* sqlite3 begins a transaction at the first INSERT, UPDATE or DELETE of a *)
(* connection: the SELECTs a handler runs before its first write are       *)
(* outside it, and another request may commit between them and the write.  *)
(* From its first write to its commit a connection holds the write lock of *)
(* the database, so that part of a handler is one step.                    *)
(***************************************************************************)
\* a create that reads the balance again inside its transaction
fresh_balance(read, current) == current

\* the previous_balance a create inserts is the value its SELECTs returned
stamped_balance(read, current) == read

\* create_invoice_api up to its first write: the SELECT of the party and,
\* for a known party (no INSERT INTO parties), the three SELECTs of
\* calculate_current_party_balance
begin_create(w, p, d, n, items) ==
    /\ inflight[w].pc = "idle"
    /\ inflight' =
           [inflight EXCEPT ![w] =
               [NoRequest EXCEPT
                   !.pc = "read", !.op = "create", !.party = p, !.date = d,
                   !.num = n, !.items = items,
                   !.party_exists = (p \in DOMAIN parties),
                   !.previous_balance =
                       IF p \in DOMAIN parties
                       THEN calculate_current_party_balance(
                                parties, invoices, payments, p)
                       ELSE 0]]
    /\ UNCHANGED <<parties, invoices, invoice_items, payments, adjustments,
                   stock, nextInvoiceId, nextPaymentId, nextStockId, resp,
                   prior>>

\* create_invoice_api from its first write to its commit
commit_create(w) ==
    LET r == inflight[w]
        Answer(status, value) ==
            /\ resp' = Response("create", status, r.num, r.party, value, <<>>)
            /\ prior' = NoPrior
    IN  /\ r.pc = "read" /\ r.op = "create"
        /\ IF (~r.party_exists /\ r.party \in DOMAIN parties)
              \/ Exists(invoices, r.num) THEN
               \* UNIQUE constraint failed (parties.name, committed by
               \* another request since the SELECT, or invoice_number):
               \* IntegrityError, rollback
               /\ Answer(409, 0)
               /\ inflight' = [inflight EXCEPT ![w].pc = "idle",
                                               ![w].status = 409]
               /\ UNCHANGED <<parties, invoices, invoice_items, payments,
                              adjustments, stock, nextInvoiceId,
                              nextPaymentId, nextStockId>>
           ELSE
               LET P1 == EnsureParty(parties, r.party)
                   current == calculate_current_party_balance(
                                  P1, invoices, payments, r.party)
                   total_amount == Round2(SumSeq(r.items))
                   previous_balance ==
                       IF r.party_exists
                       THEN stamped_balance(r.previous_balance, current)
                       ELSE current
                   grand_total == previous_balance + total_amount
                   row == [id |-> nextInvoiceId, invoice_number |-> r.num,
                           party_name |-> r.party, date |-> r.date,
                           total_amount |-> total_amount,
                           previous_balance |-> previous_balance,
                           grand_total |-> grand_total]
               IN  /\ nextInvoiceId <= MaxInvoiceId
                   /\ parties' = P1
                   /\ invoices' = invoices \cup {row}
                   /\ invoice_items' =
                          invoice_items @@ (nextInvoiceId :> r.items)
                   /\ nextInvoiceId' = nextInvoiceId + 1
                   /\ Answer(201, grand_total)
                   /\ inflight' =
                          [inflight EXCEPT
                              ![w].pc = "idle", ![w].status = 201,
                              ![w].id = nextInvoiceId,
                              ![w].previous_balance = previous_balance]
                   /\ UNCHANGED <<payments, adjustments, stock,
                                  nextPaymentId, nextStockId>>
        /\ UNCHANGED requests

\* delete_invoice up to its first write: the SELECT of the invoice, which
\* answers 404 at once when there is no row
begin_delete(w, n) ==
    /\ inflight[w].pc = "idle"
    /\ IF ~Exists(invoices, n) THEN
           /\ inflight' = [inflight EXCEPT ![w] =
                              [NoRequest EXCEPT !.op = "delete", !.num = n,
                                                !.status = 404]]
           /\ resp' = Response("delete", 404, n, "", 0, <<>>)
           /\ prior' = NoPrior
       ELSE
           LET row == RowOf(invoices, n)
           IN  /\ inflight' =
                      [inflight EXCEPT ![w] =
                          [NoRequest EXCEPT
                              !.pc = "read", !.op = "delete", !.num = n,
                              !.id = row.id, !.party = row.party_name,
                              !.date = row.date]]
               /\ UNCHANGED <<resp, prior>>
    /\ UNCHANGED <<parties, invoices, invoice_items, payments, adjustments,
                   stock, nextInvoiceId, nextPaymentId, nextStockId>>

\* delete_invoice from its first write to its commit: the DELETEs by id, the
\* recalculation from the (date, number) read earlier, the commit
commit_delete(w) ==
    LET r == inflight[w]
        I1 == {i \in invoices : i.id # r.id}
        I2 == update_subsequent_invoice_balances(
                  parties, I1, payments, r.party, r.date, r.num)
    IN  /\ r.pc = "read" /\ r.op = "delete"
        /\ invoices' = I2
        /\ invoice_items' = delete_items(invoice_items, r.id)
        /\ resp' = Response("delete", 200, r.num, r.party,
                            calculate_current_party_balance(
                                parties, I2, payments, r.party), <<>>)
        /\ prior' = NoPrior
        /\ inflight' = [inflight EXCEPT ![w].pc = "idle",
                                        ![w].status = 200]
        /\ UNCHANGED <<parties, payments, adjustments, stock, nextInvoiceId,
                       nextPaymentId, nextStockId, requests>>

\* one more request has been taken by a thread
Begun == requests < MaxInflightRequests /\ requests' = requests + 1

BeginCreate ==
    /\ Begun
    /\ \E w \in Workers, d \in Dates, n \in ChainNumbers,
          items \in ChainItemLists :
           begin_create(w, ChainParty, d, n, items)
CommitCreate == \E w \in Workers : commit_create(w)
BeginDelete ==
    /\ Begun
    /\ \E w \in Workers, n \in ChainNumbers : begin_delete(w, n)
CommitDelete == \E w \in Workers : commit_delete(w)

NextInflight ==
    \/ BeginCreate
    \/ CommitCreate
    \/ BeginDelete
    \/ CommitDelete

SpecInflight == Init /\ [][NextInflight]_vars

(***************************************************************************)
(* Stock handlers.                                                         *)
(***************************************************************************)
\* SELECT SUM(quantity) over a set of stock rows (NULL or 0 read as 0)
RECURSIVE SumQuantity(_)
SumQuantity(S) ==
    IF S = {} THEN 0
    ELSE LET r == CHOOSE x \in S : TRUE
         IN  r.quantity + SumQuantity(S \ {r})

\* a selection that forgets the product
AnyBatches(S, product) == S

BatchesOf(S, product) == {b \in S : b.product_name = product}

\* batches taken in insertion order, whatever their dates
BatchLeqById(a, b) == a.id <= b.id

\* ORDER BY date ASC, id ASC
BatchLeq(a, b) == a.date < b.date \/ (a.date = b.date /\ a.id <= b.id)

\* a loop that takes all that remains to deduct from the batch at hand
TakeRemaining(a, b) == b

Min(a, b) == IF a <= b THEN a ELSE b

RECURSIVE DeductFromBatches(_, _, _)
\* the FIFO loop over available_batches, oldest first
DeductFromBatches(S, available_batches, remaining_to_deduct) ==
    IF available_batches = {} \/ remaining_to_deduct <= 0 THEN S
    ELSE LET batch == CHOOSE x \in available_batches :
                          \A y \in available_batches : BatchLeq(x, y)
             deduct_from_this_batch == Min(batch.quantity, remaining_to_deduct)
             new == [batch EXCEPT !.quantity = batch.quantity
                                               - deduct_from_this_batch]
         IN  DeductFromBatches((S \ {batch}) \cup {new},
                               available_batches \ {batch},
                               remaining_to_deduct - deduct_from_this_batch)

\* a message that reports no available quantity
ErrorMessageWithoutAvailable(product, available, required) ==
    [product |-> product, available |-> 0, required |-> required]

\* "Not enough stock for '<product>'. Available: <a>, Required: <r>"
ErrorMessage(product, available, required) ==
    [product |-> product, available |-> available, required |-> required]

RECURSIVE DeductItemsOnCommitted(_, _, _)
\* a loop whose availability check reads the table as committed before the
\* call, not as the earlier requests of the call left it
DeductItemsOnCommitted(S, items, errors) ==
    IF items = <<>> THEN [stock |-> S, errors |-> errors]
    ELSE LET item == Head(items)
             total_available == SumQuantity(BatchesOf(stock, item.productName))
         IN  IF item.qty <= 0
             THEN DeductItemsOnCommitted(S, Tail(items), errors)
             ELSE IF total_available < item.qty THEN
                 DeductItemsOnCommitted(
                     S, Tail(items),
                     Append(errors, ErrorMessage(item.productName,
                                                 total_available, item.qty)))
             ELSE
                 DeductItemsOnCommitted(
                     DeductFromBatches(
                         S,
                         {b \in BatchesOf(S, item.productName) : b.quantity > 0},
                         item.qty),
                     Tail(items), errors)

RECURSIVE DeductItems(_, _, _)
\* the loop of deduct_stock_api over items_to_deduct, inside one transaction:
\* yields the uncommitted stock table and the collected errors
DeductItems(S, items, errors) ==
    IF items = <<>> THEN [stock |-> S, errors |-> errors]
    ELSE LET item == Head(items)
             total_available == SumQuantity(BatchesOf(S, item.productName))
         IN  IF item.qty <= 0 THEN DeductItems(S, Tail(items), errors)
             ELSE IF total_available < item.qty THEN
                 DeductItems(S, Tail(items),
                             Append(errors,
                                    ErrorMessage(item.productName,
                                                 total_available, item.qty)))
             ELSE
                 DeductItems(
                     DeductFromBatches(
                         S,
                         {b \in BatchesOf(S, item.productName) : b.quantity > 0},
                         item.qty),
                     Tail(items), errors)

\* a deduction that commits whatever the loop wrote
DeductOutcomeWithoutRollback(S, result) == result.stock

\* what deduct_stock_api leaves in the table: rollback on any error
DeductOutcome(S, result) ==
    IF result.errors # <<>> THEN S ELSE result.stock

\* POST /api/stock/deduct
deduct_stock_api(items) ==
    LET result == DeductItems(stock, items, <<>>)
    IN  /\ stock' = DeductOutcome(stock, result)
        /\ resp' = IF result.errors # <<>>
                   THEN Response("deduct", 400, NoInvoice, "", 0, result.errors)
                   ELSE Response("deduct", 200, NoInvoice, "", 0, <<>>)
        /\ prior' = [NoPrior EXCEPT !.stage = "deduct", !.items = items]
        /\ UNCHANGED <<parties, invoices, invoice_items, payments,
                       adjustments, nextInvoiceId, nextPaymentId, nextStockId>>

RECURSIVE AddItems(_, _, _)
\* the loop of add_stock_batch_api: rows with a quantity <= 0 are skipped
AddItems(S, next, items) ==
    IF items = <<>> THEN [stock |-> S, next |-> next]
    ELSE LET item == Head(items)
         IN  IF item.quantity <= 0 THEN AddItems(S, next, Tail(items))
             ELSE AddItems(S \cup {[id |-> next,
                                    product_name |-> item.productName,
                                    date |-> item.date,
                                    quantity |-> item.quantity]},
                           next + 1, Tail(items))

\* POST /api/stock/batch-add
add_stock_batch_api(items) ==
    LET result == AddItems(stock, nextStockId, items)
    IN  /\ result.next <= MaxStockId + 1
        /\ stock' = result.stock
        /\ nextStockId' = result.next
        /\ resp' = Response("add", 201, NoInvoice, "", result.next - nextStockId, <<>>)
        /\ prior' = NoPrior
        /\ UNCHANGED <<parties, invoices, invoice_items, payments,
                       adjustments, nextInvoiceId, nextPaymentId>>

\* the requests of a call: the first product with every date and every usable
\* quantity, the second product with one of each, and one request of each
\* kind with the quantity 0 that the loops skip
DeductRequests ==
    [productName : {"Ghee"}, qty : DeductQuantities]
        \cup {[productName |-> "Oil", qty |-> 3],
              [productName |-> "Ghee", qty |-> 0]}
AddRequests ==
    [productName : {"Ghee"}, date : Dates, quantity : BatchQuantities]
        \cup {[productName |-> "Oil", date |-> 1, quantity |-> 5],
              [productName |-> "Ghee", date |-> 1, quantity |-> 0]}

SeqsUpTo(S, n) == UNION {[1..k -> S] : k \in 1..n}

\* the item lists of a call (an empty list is refused before any read)
AddCalls == SeqsUpTo(AddRequests, MaxAddItems)
DeductCalls == SeqsUpTo(DeductRequests, MaxDeductItems)

ServedStock ==
    /\ requests < MaxStockRequests
    /\ requests' = requests + 1
    /\ UNCHANGED inflight

AddStockBatch ==
    /\ ServedStock
    /\ \E items \in AddCalls :
           add_stock_batch_api(items)
DeductStock ==
    /\ ServedStock
    /\ \E items \in DeductCalls :
           deduct_stock_api(items)

NextStock ==
    \/ AddStockBatch
    \/ DeductStock

SpecStock == Init /\ [][NextStock]_vars

(***************************************************************************)
(* Properties of the running-balance ledger.                               *)
(***************************************************************************)
\* j comes before i in a party's chronological order of invoices
Earlier(j, i) ==
    \/ j.date < i.date
    \/ j.date = i.date /\ CastInt(j.invoice_number) < CastInt(i.invoice_number)

EarlierInvoices(i) ==
    {j \in InvoicesOf(invoices, i.party_name) : Earlier(j, i)}

\* j is the invoice right after i in the chain of their party
NextInChain(I, i, j) ==
    /\ j \in InvoicesOf(I, i.party_name)
    /\ Earlier(i, j)
    /\ ~\E k \in InvoicesOf(I, i.party_name) : Earlier(i, k) /\ Earlier(k, j)

\* the exact balance of a party: opening balance + invoices - payments
ExactBalance(p) ==
    InitialBalance(parties, p) + SumTotals(InvoicesOf(invoices, p))
    - SumAmounts(PaymentsOf(payments, p))

\* C1: every invoice's previous_balance is the party's balance over the
\* events strictly earlier than it.  Stated where nothing but invoices
\* exists (no payment, no opening-balance adjustment): the opening balance
\* plus the totals of the party's chronologically earlier invoices.
C1_PreviousBalanceIsChronological ==
    (adjustments = <<>> /\ payments = {}) =>
        \A i \in invoices :
            i.previous_balance =
                InitialBalance(parties, i.party_name)
                + SumTotals(EarlierInvoices(i))

\* C2: after an update that changes only the total of invoice I, the next
\* invoice J of the party has previous_balance = I's new grand_total and
\* grand_total = that + J.total_amount (stated where the party has no
\* payment).
C2_UpdateCarriesToNext ==
    [][(/\ resp'.op = "update" /\ resp'.status = 200
        /\ PaymentsOf(payments', resp'.party) = {})
       => LET old == RowOf(invoices, resp'.num)
              new == RowOf(invoices', resp'.num)
          IN  (/\ old.party_name = new.party_name
               /\ old.date = new.date
               /\ old.total_amount # new.total_amount)
              => \A j \in invoices' :
                     NextInChain(invoices', new, j) =>
                         /\ j.previous_balance = new.grand_total
                         /\ j.grand_total = new.grand_total + j.total_amount
      ]_vars

\* C3 as stated: the computed current balance of every party is exactly
\* opening balance + invoice totals - payments.
C3_BalanceIsExactSum ==
    \A p \in PartyNames :
        calculate_current_party_balance(parties, invoices, payments, p)
            = ExactBalance(p)

\* C3 as amended: the computed current balance of every party, and the
\* balance a payment, payment deletion, invoice deletion or opening-balance
\* request returns, is opening balance + invoice totals - payments of the
\* committed state rounded to two decimals; it is the exact sum when that
\* sum has no more than two decimals.
C3_BalanceIsRoundedSum ==
    /\ \A p \in PartyNames :
           LET b == calculate_current_party_balance(parties, invoices,
                                                    payments, p)
           IN  /\ b % 10 = 0
               /\ 2 * b >= 2 * ExactBalance(p) - 10
               /\ 2 * b <= 2 * ExactBalance(p) + 10
               /\ ExactBalance(p) % 10 = 0 => b = ExactBalance(p)
    /\ (resp.op \in {"pay", "unpay", "delete", "setbal"}
        /\ resp.status \in {200, 201})
       => /\ resp.value % 10 = 0
          /\ 2 * resp.value >= 2 * ExactBalance(resp.party) - 10
          /\ 2 * resp.value <= 2 * ExactBalance(resp.party) + 10

\* a payment with a fraction of a hundredth has been recorded and the
\* party's balance is not a whole number of hundredths
C3_Witness ==
    /\ resp.op = "pay" /\ resp.status = 201
    /\ ExactBalance(resp.party) % 10 # 0
    /\ InvoicesOf(invoices, resp.party) # {}

\* C4: every stored invoice has grand_total = previous_balance + total_amount
C4_GrandTotalInvariant ==
    \A i \in invoices : i.grand_total = i.previous_balance + i.total_amount

\* an update has changed a total and the sweep has rewritten a later invoice
C4_Witness ==
    /\ resp.op = "update" /\ resp.status = 200
    /\ \E i, j \in invoices :
           /\ i.invoice_number = resp.num
           /\ NextInChain(invoices, i, j)
           /\ i.grand_total # i.total_amount

\* C5: consecutive invoices of a party with no payment between them chain:
\* the later one's previous_balance is the earlier one's grand_total.
\* Stated where no opening balance was adjusted; a payment dated from the
\* earlier invoice's date to the later one's counts as between them.
C5_ConsecutiveInvoicesChain ==
    adjustments = <<>> =>
        \A i, j \in invoices :
            (/\ NextInChain(invoices, i, j)
             /\ ~\E y \in PaymentsOf(payments, i.party_name) :
                    i.date <= y.date /\ y.date <= j.date)
            => j.previous_balance = i.grand_total

\* C6: deleting an invoice and creating it again with the same number,
\* party, date and items leaves every invoice of the party with the
\* previous_balance and grand_total it had before the deletion (stated where
\* the party has no payment and no opening-balance adjustment).
C6_DeleteThenReaddRestores ==
    (/\ prior.stage = "readded" /\ adjustments = <<>>
     /\ PaymentsOf(payments, prior.party) = {})
    => Chain(invoices, prior.party) = prior.rows

(***************************************************************************)
(* Properties of the FIFO stock allocator.                                 *)
(***************************************************************************)
\* batch a is taken before batch b: older date, then smaller id
Older(a, b) == a.date < b.date \/ (a.date = b.date /\ a.id < b.id)

Available(S, product) == SumQuantity(BatchesOf(S, product))

RECURSIVE Requested(_, _)
\* the quantity a call asks of a product (requests with qty <= 0 are skipped)
Requested(items, product) ==
    IF items = <<>> THEN 0
    ELSE (IF Head(items).productName = product /\ Head(items).qty > 0
          THEN Head(items).qty ELSE 0)
         + Requested(Tail(items), product)

\* what is still owed when batch b's turn comes, of a quantity q
Owed(S, b, q) ==
    LET older == SumQuantity({c \in BatchesOf(S, b.product_name) : Older(c, b)})
    IN  IF q > older THEN q - older ELSE 0

\* C7: a successful deduction takes from the product's batches in (date,
\* id) order, each batch losing min(its quantity, what is still owed); so a
\* batch is reduced only if every older batch of the product ends at 0.
C7_FifoOrder ==
    [][(resp'.op = "deduct" /\ resp'.status = 200)
       => /\ {b.id : b \in stock'} = {b.id : b \in stock}
          /\ \A b \in stock :
                 LET owed == Owed(stock, b,
                                  Requested(prior'.items, b.product_name))
                     taken == IF b.quantity <= owed THEN b.quantity ELSE owed
                 IN  [b EXCEPT !.quantity = b.quantity - taken] \in stock'
          /\ \A b, c \in stock :
                 (/\ b.product_name = c.product_name /\ Older(c, b)
                  /\ \E nb \in stock' : nb.id = b.id /\ nb.quantity < b.quantity)
                 => \E nc \in stock' : nc.id = c.id /\ nc.quantity = 0
      ]_vars

\* 7 taken of two batches of 5: the batch with the older date is at 0 and
\* the newer one at 3, although the older one was inserted later
C7_Witness ==
    /\ resp.op = "deduct" /\ resp.status = 200
    /\ Len(prior.items) = 1 /\ prior.items[1].qty = 7
    /\ \E b1, b2 \in BatchesOf(stock, prior.items[1].productName) :
           /\ b1.date < b2.date /\ b1.id > b2.id
           /\ b1.quantity = 0 /\ b2.quantity = 3

\* C8: a request for more than the product's total remaining quantity
\* leaves every batch unchanged and the call fails with a message naming
\* the product, the available quantity and the required quantity.
C8_InsufficientLeavesStock ==
    [][resp'.op = "deduct"
       => \A k \in 1..Len(prior'.items) :
              LET item == prior'.items[k]
                  avail == Available(stock, item.productName)
              IN  (item.qty > 0 /\ item.qty > avail)
                  => /\ stock' = stock
                     /\ resp'.status = 400
                     /\ \E e \in 1..Len(resp'.errors) :
                            /\ resp'.errors[e].product = item.productName
                            /\ resp'.errors[e].required = item.qty
                            /\ resp'.errors[e].available <= avail
                            /\ (\A m \in 1..(k - 1) :
                                    prior'.items[m].productName
                                        # item.productName)
                               => resp'.errors[e].available = avail
      ]_vars

\* a single request for more than the product holds: the batches stand and
\* the message carries the quantity that is there
C8_Witness ==
    /\ resp.op = "deduct" /\ resp.status = 400
    /\ Len(prior.items) = 1
    /\ Available(stock, prior.items[1].productName) > 0
    /\ prior.items[1].qty > Available(stock, prior.items[1].productName)
    /\ resp.errors[1].available = Available(stock, prior.items[1].productName)

\* the products a call asks more of than the table holds
InsufficientProducts(S, items) ==
    {p \in ProductNames : Requested(items, p) > Available(S, p)}

\* C9: if any product of a call has insufficient stock, no batch of any
\* product changes, and the failure carries a message for every
\* insufficient product.
C9_AllOrNothing ==
    [][resp'.op = "deduct"
       => LET bad == InsufficientProducts(stock, prior'.items)
          IN  bad # {}
              => /\ stock' = stock
                 /\ resp'.status = 400
                 /\ \A p \in bad :
                        \E e \in 1..Len(resp'.errors) :
                            resp'.errors[e].product = p
      ]_vars

\* a call whose first request could be served and whose second, for another
\* product, could not: the first product's batches still hold the quantity
C9_Witness ==
    /\ resp.op = "deduct" /\ resp.status = 400
    /\ Len(prior.items) = 2
    /\ prior.items[1].productName # prior.items[2].productName
    /\ prior.items[1].qty > 0
    /\ prior.items[1].qty <= Available(stock, prior.items[1].productName)
    /\ prior.items[2].qty > Available(stock, prior.items[2].productName)

(***************************************************************************)
(* Uniqueness of invoice numbers.                                          *)
(***************************************************************************)
UniqueNumbers(I) ==
    \A i, j \in I : i.invoice_number = j.invoice_number => i = j

\* C10: a create whose invoice number exists, for any party, answers 409
\* and writes nothing (no invoice, no items, no party row); no two stored
\* invoices share an invoice number.
C10_DuplicateNumberRejected ==
    [][/\ UniqueNumbers(invoices')
       /\ (/\ resp'.op = "create" /\ resp'.status # 400
           /\ Exists(invoices, resp'.num))
          => /\ resp'.status = 409
             /\ invoices' = invoices
             /\ invoice_items' = invoice_items
             /\ parties' = parties
             /\ nextInvoiceId' = nextInvoiceId
      ]_vars

\* a create for a party never seen, with the number of another party's
\* invoice, was refused and the party is still unknown
C10_Witness ==
    /\ resp.op = "create" /\ resp.status = 409
    /\ resp.party \notin DOMAIN parties
    /\ \E i \in invoices :
           i.invoice_number = resp.num /\ i.party_name # resp.party

(***************************************************************************)
(* Deletions and the recalculation they trigger.                           *)
(***************************************************************************)
Abs(x) == IF x < 0 THEN -x ELSE x

\* the balance of j's party over the events up to invoice j: opening
\* balance, the party's chronologically earlier invoices, and the party's
\* payments dated up to j's date
BalanceBefore(P, I, Y, j) ==
    InitialBalance(P, j.party_name)
    + SumTotals({k \in InvoicesOf(I, j.party_name) : Earlier(k, j)})
    - SumAmounts({y \in PaymentsOf(Y, j.party_name) : y.date <= j.date})

\* the stored fields of the party's invoices dated after day d agree, to
\* within a hundredth, with the payments Y
LaterInvoicesAgree(P, I, Y, p, d) ==
    \A j \in InvoicesOf(I, p) :
        j.date > d =>
            /\ Abs(j.previous_balance - BalanceBefore(P, I, Y, j)) < 10
            /\ j.grand_total = j.previous_balance + j.total_amount

\* C11: deleting a payment recalculates the party's invoices dated after
\* the payment: where their stored previous_balance and grand_total agreed
\* with the payments before the deletion, they agree with the remaining
\* payments after it (they no longer subtract the deleted amount).
C11_DeletePaymentRecalculates ==
    [][(resp'.op = "unpay" /\ resp'.status = 200)
       => \A y \in payments \ payments' :
              LaterInvoicesAgree(parties, invoices, payments,
                                 y.party_name, y.date)
              => LaterInvoicesAgree(parties', invoices', payments',
                                    y.party_name, y.date)
      ]_vars

(***************************************************************************)
(* The opening-balance adjustment log.                                     *)
(***************************************************************************)
\* C19: the adjustment log is append-only: a row once written is still
\* there, unchanged, after every later request (the admin delete-all-data
\* request included).
C19_AdjustmentLogAppendOnly ==
    [][/\ Len(adjustments') >= Len(adjustments)
       /\ \A k \in 1..Len(adjustments) : adjustments'[k] = adjustments[k]
      ]_vars

(***************************************************************************)
(* Failed requests.                                                        *)
(***************************************************************************)
\* invoice i lies strictly after, strictly before, the point (day d, number n)
StrictlyAfter(i, d, n) ==
    i.date > d \/ (i.date = d /\ CastInt(i.invoice_number) > CastInt(n))
StrictlyBefore(i, d, n) ==
    i.date < d \/ (i.date = d /\ CastInt(i.invoice_number) < CastInt(n))

\* the balance a recalculation of party p from (d, n) starts from
RunningAt(P, I, Y, p, d, n) ==
    InitialBalance(P, p)
    + SumTotals({i \in InvoicesOf(I, p) : StrictlyBefore(i, d, n)})
    - SumAmounts({y \in PaymentsOf(Y, p) : y.date <= d})

\* k is visited before j: earlier date, then smaller integer number (and,
\* between two numbers of the same integer value, the row inserted first)
VisitedBefore(k, j) ==
    \/ Earlier(k, j)
    \/ /\ k.date = j.date
       /\ CastInt(k.invoice_number) = CastInt(j.invoice_number)
       /\ k.id < j.id

\* the invoices of party p strictly after (d, n) carry the running balance
\* started at (d, n) and advanced by each invoice visited before them
Recalculated(P, I, Y, p, d, n) ==
    \A j \in InvoicesOf(I, p) :
        StrictlyAfter(j, d, n) =>
            /\ j.previous_balance =
                   RunningAt(P, I, Y, p, d, n)
                   + SumTotals({k \in InvoicesOf(I, p) :
                                   StrictlyAfter(k, d, n)
                                   /\ VisitedBefore(k, j)})
            /\ j.grand_total = j.previous_balance + j.total_amount

\* the committed tables of the ledger are those of before the step
LedgerUnchanged ==
    /\ parties' = parties
    /\ invoices' = invoices
    /\ invoice_items' = invoice_items
    /\ payments' = payments
    /\ adjustments' = adjustments
    /\ nextInvoiceId' = nextInvoiceId
    /\ nextPaymentId' = nextPaymentId

OpeningBalanceFrame ==
    /\ invoices' = invoices
    /\ invoice_items' = invoice_items
    /\ payments' = payments
    /\ DOMAIN parties' = DOMAIN parties \cup {resp'.party}
    /\ \A q \in DOMAIN parties \ {resp'.party} : parties'[q] = parties[q]
    /\ Len(adjustments') = Len(adjustments) + 1
    /\ \A k \in 1..Len(adjustments) : adjustments'[k] = adjustments[k]
    /\ adjustments'[Len(adjustments')] =
           [party |-> resp'.party,
            old_balance |-> InitialBalance(parties, resp'.party),
            new_balance |-> parties'[resp'.party]]

\* the shift of the party's computed balance, and of its opening balance
BalanceShift ==
    calculate_current_party_balance(parties', invoices', payments',
                                    resp'.party)
    - calculate_current_party_balance(parties, invoices, payments,
                                      resp'.party)
OpeningShift ==
    parties'[resp'.party] - InitialBalance(parties, resp'.party)

\* C14 as stated: a set-opening-balance request changes only the party's
\* opening balance and appends one audit row, and the party's computed
\* current balance shifts by exactly newBalance - oldBalance.
C14_OpeningBalanceShiftsExactly ==
    [][(resp'.op = "setbal" /\ resp'.status \in {200, 201})
       => /\ OpeningBalanceFrame
          /\ BalanceShift = OpeningShift
      ]_vars

\* C14 as amended: the same frame; the computed current balance, which the
\* request returns, is the sum with the new opening balance rounded to two
\* decimals, so it shifts by newBalance - oldBalance to within a hundredth,
\* and by exactly that when the difference is a whole number of hundredths.
C14_OpeningBalanceShiftsRounded ==
    [][(resp'.op = "setbal" /\ resp'.status \in {200, 201})
       => /\ OpeningBalanceFrame
          /\ Abs(BalanceShift - OpeningShift) < 10
          /\ OpeningShift % 10 = 0 => BalanceShift = OpeningShift
          /\ resp'.value % 10 = 0
          /\ 2 * resp'.value >=
                 2 * (parties'[resp'.party]
                      + SumTotals(InvoicesOf(invoices, resp'.party))
                      - SumAmounts(PaymentsOf(payments, resp'.party))) - 10
          /\ 2 * resp'.value <=
                 2 * (parties'[resp'.party]
                      + SumTotals(InvoicesOf(invoices, resp'.party))
                      - SumAmounts(PaymentsOf(payments, resp'.party))) + 10
      ]_vars

\* the opening balance of a party with an invoice has been set while
\* another party is known; the invoice still carries the balance stamped
\* before the change
C14_Witness ==
    /\ resp.op = "setbal" /\ resp.status = 200
    /\ adjustments # <<>>
    /\ parties[resp.party] # 0
    /\ \E q \in DOMAIN parties : q # resp.party
    /\ \E i \in InvoicesOf(invoices, resp.party) :
           i.previous_balance = 0

(***************************************************************************)
(* What a create stamps on the new invoice.                                *)
(***************************************************************************)
\* the invoice a successful create has just inserted
Created == CHOOSE i \in invoices' : i.invoice_number = resp'.num

\* opening balance + all invoices - all payments of the party before the
\* create; an unknown party counts with the opening balance 0
SumBeforeCreate ==
    InitialBalance(parties, resp'.party)
    + SumTotals(InvoicesOf(invoices, resp'.party))
    - SumAmounts(PaymentsOf(payments, resp'.party))

\* the row a create inserts beside the rows that were there, and the party
\* it creates when unknown
CreateFrame ==
    /\ invoices' = invoices \cup {Created}
    /\ Created \notin invoices
    /\ Created.party_name = resp'.party
    /\ Created.grand_total = Created.previous_balance + Created.total_amount
    /\ resp'.value = Created.grand_total
    /\ DOMAIN parties' = DOMAIN parties \cup {resp'.party}
    /\ resp'.party \notin DOMAIN parties => parties'[resp'.party] = 0
    /\ \A q \in DOMAIN parties : parties'[q] = parties[q]

\* C16 as stated: a create stamps previous_balance = opening balance + all
\* existing invoices - all existing payments of the party as they are before
\* the insert (an unknown party is created at 0), grand_total =
\* previous_balance + total_amount, and returns that grand_total.
C16_CreateStampsExactBalance ==
    [][(resp'.op = "create" /\ resp'.status = 201)
       => /\ CreateFrame
          /\ Created.previous_balance = SumBeforeCreate
      ]_vars

\* C16 as amended: the same, with previous_balance that sum rounded to two
\* decimals (the sum itself when it has no more than two decimals).
C16_CreateStampsRoundedBalance ==
    [][(resp'.op = "create" /\ resp'.status = 201)
       => /\ CreateFrame
          /\ Created.previous_balance % 10 = 0
          /\ 2 * Created.previous_balance >= 2 * SumBeforeCreate - 10
          /\ 2 * Created.previous_balance <= 2 * SumBeforeCreate + 10
          /\ SumBeforeCreate % 10 = 0
                 => Created.previous_balance = SumBeforeCreate
      ]_vars

\* a party with an invoice and a payment got a second invoice, stamped with
\* a balance that counts both; and a create made its party
C16_Witness ==
    /\ resp.op = "create" /\ resp.status = 201
    /\ PaymentsOf(payments, resp.party) # {}
    /\ Cardinality(InvoicesOf(invoices, resp.party)) = 2
    /\ \E i \in invoices :
           /\ i.invoice_number = resp.num
           /\ i.previous_balance # 0
           /\ i.grand_total = resp.value

(***************************************************************************)
(* Requests on an invoice number that does not exist.                      *)
(***************************************************************************)
\* C17: an update or a delete of an invoice number that is not stored
\* changes nothing (no party is created, no invoice, item or balance field
\* is written), and, when the request passes validation, is answered
\* not-found (404).
C17_MissingInvoiceNotFound ==
    [][(/\ resp'.op \in {"update", "delete"}
        /\ ~Exists(invoices, resp'.num))
       => /\ LedgerUnchanged
          /\ resp'.status # 400 => resp'.status = 404
      ]_vars

\* an update that would move a missing number to a party never seen was
\* answered 404 while another invoice is stored; the party is still unknown
C17_Witness ==
    /\ resp.op = "update" /\ resp.status = 404
    /\ resp.party \notin DOMAIN parties
    /\ invoices # {}
    /\ ~Exists(invoices, resp.num)

(***************************************************************************)
(* Stock quantities.                                                       *)
(***************************************************************************)
\* C15: the remaining quantity of every stock batch is >= 0 in every
\* reachable state, after any sequence of batch additions and deductions,
\* successful or failed.
C15_QuantityNeverNegative ==
    \A b \in stock : b.quantity >= 0

\* a deduction has emptied the oldest batch and taken the rest from the
\* next one
C15_Witness ==
    /\ resp.op = "deduct" /\ resp.status = 200
    /\ \E a, b \in stock :
           /\ a.product_name = b.product_name
           /\ a.quantity = 0
           /\ b.quantity > 0 /\ b.quantity < 5

(***************************************************************************)
(* The forward recalculation after a deletion.                             *)
(***************************************************************************)
\* C12: for a party with no payment, after a delete every remaining invoice
\* J of the party chronologically after the deleted one (date, then integer
\* number) has previous_balance = opening balance + the totals of the
\* party's remaining invoices chronologically before J.
C12_DeleteRecalculatesLater ==
    [][(/\ resp'.op = "delete" /\ resp'.status = 200
        /\ PaymentsOf(payments', prior'.party) = {})
       => \A j \in InvoicesOf(invoices', prior'.party) :
              StrictlyAfter(j, prior'.date, prior'.num) =>
                  j.previous_balance =
                      InitialBalance(parties', prior'.party)
                      + SumTotals({k \in InvoicesOf(invoices', prior'.party) :
                                      Earlier(k, j)})
      ]_vars

\* C20: a recalculation from (fromDate, fromNumber), as a delete runs it,
\* starts from opening balance + totals of the party's invoices strictly
\* before the cutoff - the party's payments dated up to fromDate, visits the
\* party's invoices strictly after the cutoff in (date, integer number)
\* order and writes previous_balance = running, grand_total = running +
\* total_amount, running = grand_total; payments dated after fromDate and an
\* invoice exactly on the cutoff add nothing to running, and no other row
\* and no other field is written.
C20_RecalcForward ==
    [][(resp'.op = "delete" /\ resp'.status = 200)
       => /\ Recalculated(parties', invoices', payments', prior'.party,
                          prior'.date, prior'.num)
          /\ \A i \in invoices :
                 i.invoice_number # prior'.num =>
                     \E j \in invoices' :
                         /\ j.id = i.id
                         /\ j.invoice_number = i.invoice_number
                         /\ j.party_name = i.party_name
                         /\ j.date = i.date
                         /\ j.total_amount = i.total_amount
                         /\ (~(i.party_name = prior'.party
                               /\ StrictlyAfter(i, prior'.date, prior'.num)))
                            => j = i
          /\ Cardinality(invoices') = Cardinality(invoices) - 1
      ]_vars

\* a delete has swept two later invoices: the first carries the starting
\* balance, the second the first one's grand total
C20_Witness ==
    /\ resp.op = "delete" /\ resp.status = 200
    /\ \E i, j \in InvoicesOf(invoices, prior.party) :
           /\ StrictlyAfter(i, prior.date, prior.num)
           /\ VisitedBefore(i, j)
           /\ i.previous_balance = 0
           /\ j.previous_balance = i.grand_total
           /\ i.total_amount # j.total_amount

(***************************************************************************)
(* Requests that interleave.                                               *)
(***************************************************************************)
\* C18: nothing serialises two requests on one party's chain.  A create for
\* a known party that began before another request committed is committed
\* all the same, with 201 and no error, as soon as its number is free, and
\* the invoice it inserts carries the balance it read before that commit,
\* whatever the balance has become; so two creates can both succeed with
\* the same previous_balance (C18_Witness).
C18_StaleBalanceCommitted ==
    [][\A w \in Workers :
           (/\ inflight[w].pc = "read" /\ inflight[w].op = "create"
            /\ inflight'[w].pc = "idle"
            /\ inflight[w].party_exists
            /\ ~Exists(invoices, inflight[w].num))
           => /\ inflight'[w].status = 201
              /\ resp'.status = 201
              /\ \E i \in invoices' \ invoices :
                     /\ i.invoice_number = inflight[w].num
                     /\ i.previous_balance = inflight[w].previous_balance
                     /\ i.grand_total = i.previous_balance + i.total_amount
      ]_vars

\* two creates of one party were both answered 201 after both had read the
\* same balance: their two invoices, each with a positive total, are
\* stamped with the same previous_balance, which for the one committed last
\* is no longer the party's balance before it
C18_Witness ==
    /\ inflight[1].op = "create" /\ inflight[1].status = 201
    /\ inflight[1].pc = "idle"
    /\ inflight[2].op = "create" /\ inflight[2].status = 201
    /\ inflight[2].pc = "idle"
    /\ \E i, j \in invoices :
           /\ i.id = inflight[1].id /\ j.id = inflight[2].id
           /\ i.party_name = j.party_name
           /\ i.total_amount > 0 /\ j.total_amount > 0
           /\ i.previous_balance = j.previous_balance
           /\ Cardinality(InvoicesOf(invoices, i.party_name)) = 3
           /\ payments = {}

(***************************************************************************)
(* The recalculation as a function of the tables.                          *)
(***************************************************************************)
\* the table with the stored balances of every row overwritten
Scrambled(I) ==
    {[i EXCEPT !.previous_balance = 7, !.grand_total = 9] : i \in I}

\* the rows of party p a recalculation from (d, n) writes
SweptRows(I, p, d, n) == {i \in InvoicesOf(I, p) : StrictlyAfter(i, d, n)}

\* C21: a recalculation converges in one pass.  Run a second time with the
\* same (party, fromDate, fromNumber) on the table the first run produced
\* (here the run of a delete) it changes no invoice, and the rows it writes
\* are the same whatever previous_balance and grand_total the rows held
\* before the first run.
C21_RecalcConverges ==
    [][(resp'.op = "delete" /\ resp'.status = 200)
       => LET before == {i \in invoices : i.invoice_number # prior'.num}
              p == prior'.party
              d == prior'.date
              n == prior'.num
          IN  /\ update_subsequent_invoice_balances(
                     parties', invoices', payments', p, d, n) = invoices'
              /\ SweptRows(update_subsequent_invoice_balances(
                               parties, Scrambled(before), payments, p, d, n),
                           p, d, n)
                 = SweptRows(invoices', p, d, n)
      ]_vars

\* a delete whose recalculation rewrote two later invoices of the party
C21_Witness ==
    /\ resp.op = "delete" /\ resp.status = 200
    /\ Cardinality({i \in SweptRows(invoices, prior.party, prior.date,
                                    prior.num) :
                       [invoice_number |-> i.invoice_number,
                        previous_balance |-> i.previous_balance,
                        grand_total |-> i.grand_total] \notin prior.rows})
       >= 2

(***************************************************************************)
(* Updates.                                                                *)
(***************************************************************************)
\* C22: an accepted update leaves the stored previous_balance of the updated
\* invoice as it was, also when it moves the invoice to another party or
\* date; the invoice keeps its id and number, takes the requested party and
\* the new items, and its grand_total is that previous_balance + the new
\* total_amount.
C22_UpdateKeepsPreviousBalance ==
    [][(resp'.op = "update" /\ resp'.status = 200)
       => \E i \in invoices, j \in invoices' :
              /\ i.invoice_number = resp'.num
              /\ j.id = i.id
              /\ j.invoice_number = i.invoice_number
              /\ j.previous_balance = i.previous_balance
              /\ j.party_name = resp'.party
              /\ j.grand_total = i.previous_balance + j.total_amount
              /\ \A k \in invoices' : k.id = j.id => k = j
      ]_vars

\* an updated invoice that is the only one of its party, a party without
\* opening balance, and still carries the balance of the chain it came from
C22_Witness ==
    /\ resp.op = "update" /\ resp.status = 200
    /\ \E j \in invoices :
           /\ j.invoice_number = resp.num
           /\ j.previous_balance > 0
           /\ InvoicesOf(invoices, j.party_name) = {j}
           /\ j.party_name \in DOMAIN parties
           /\ parties[j.party_name] = 0
           /\ j.date = 2

\* C23: when an accepted update moves invoice I from party P to another
\* party Q and P has no payment, every invoice J of P chronologically after
\* I's old (date, number) ends with previous_balance = opening balance of P +
\* the totals of P's remaining invoices chronologically before J.
C23_MoveRecalculatesOldParty ==
    [][(resp'.op = "update" /\ resp'.status = 200)
       => \A i \in invoices :
              (/\ i.invoice_number = resp'.num
               /\ i.party_name # resp'.party
               /\ PaymentsOf(payments', i.party_name) = {})
              => \A j \in InvoicesOf(invoices', i.party_name) :
                     StrictlyAfter(j, i.date, i.invoice_number) =>
                         j.previous_balance =
                             InitialBalance(parties', i.party_name)
                             + SumTotals({k \in InvoicesOf(invoices',
                                                          i.party_name) :
                                             Earlier(k, j)})
      ]_vars

\* C24: an accepted update that keeps the party and whose new total_amount
\* equals the original one (a change of date only, or of item details with
\* the same total) runs no recalculation: every other invoice keeps its
\* previous_balance and grand_total, wherever the new date places the
\* updated invoice among them.
C24_NoCascadeWithoutChange ==
    [][(resp'.op = "update" /\ resp'.status = 200)
       => \A i \in invoices, j \in invoices' :
              (/\ i.invoice_number = resp'.num
               /\ j.id = i.id
               /\ j.party_name = i.party_name
               /\ j.total_amount = i.total_amount)
              => /\ invoices \ {i} = invoices' \ {j}
                 /\ \A k \in DOMAIN invoice_items \ {i.id} :
                        /\ k \in DOMAIN invoice_items'
                        /\ invoice_items'[k] = invoice_items[k]
      ]_vars

\* an invoice updated to new items of the same total and now dated after a
\* later-created invoice of its party, which still carries its total
C24_Witness ==
    /\ resp.op = "update" /\ resp.status = 200
    /\ payments = {}
    /\ \E j, k \in invoices :
           /\ j.invoice_number = resp.num
           /\ invoice_items[j.id] = <<50>>
           /\ j.previous_balance = 0
           /\ k.party_name = j.party_name
           /\ parties[j.party_name] = 0
           /\ k.id > j.id
           /\ k.date < j.date
           /\ k.previous_balance = j.total_amount
           /\ invoice_items[k.id] = <<100>>

\* the sum of the amount fields of the first k item rows of an invoice
RECURSIVE AmountsUpTo(_, _)
AmountsUpTo(items, k) ==
    IF k = 0 THEN 0 ELSE items[k] + AmountsUpTo(items, k - 1)

StoredItemsSum(i) == AmountsUpTo(invoice_items[i.id], Len(invoice_items[i.id]))

\* C25 as stated: in every committed state the total_amount of each invoice
\* equals the sum of the amount fields of the items stored for it.
C25_TotalIsExactItemSum ==
    \A i \in invoices :
        /\ i.id \in DOMAIN invoice_items
        /\ i.total_amount = StoredItemsSum(i)

\* C25 as amended: in every committed state the total_amount of each invoice
\* is the sum of the amount fields of the items stored for it rounded to two
\* decimals (the exact sum when that sum has no more than two decimals),
\* after a create and after an update has replaced the items.
C25_TotalIsRoundedItemSum ==
    \A i \in invoices :
        /\ i.id \in DOMAIN invoice_items
        /\ i.total_amount % 10 = 0
        /\ 2 * i.total_amount >= 2 * StoredItemsSum(i) - 10
        /\ 2 * i.total_amount <= 2 * StoredItemsSum(i) + 10
        /\ StoredItemsSum(i) % 10 = 0 => i.total_amount = StoredItemsSum(i)

\* an update has replaced the items of an invoice by two amounts whose sum
\* is not a whole number of hundredths
C25_Witness ==
    /\ resp.op = "update" /\ resp.status = 200
    /\ \E i \in invoices :
           /\ i.invoice_number = resp.num
           /\ Len(invoice_items[i.id]) = 2
           /\ StoredItemsSum(i) % 10 # 0
           /\ i.grand_total # i.total_amount

\* C26: the recalculations a delete or an update runs write nothing but the
\* previous_balance and grand_total of invoices of the recalculated party
\* strictly after the cutoff (for a delete the deleted invoice's party and
\* (date, number); for an update the old party from the old (date, number)
\* and the new party from the new one).  Every invoice at or before the
\* cutoff and every invoice of another party is unchanged, every invoice
\* keeps its number, party, date, total_amount and items, and payments and
\* opening balances are unchanged.
C26_RecalcFrame ==
    [][(resp'.op \in {"delete", "update"} /\ resp'.status = 200)
       => \A t \in invoices :
              t.invoice_number = resp'.num =>
                  /\ \A i \in invoices \ {t} :
                         \E j \in invoices' :
                             /\ j = [i EXCEPT
                                       !.previous_balance = j.previous_balance,
                                       !.grand_total = j.grand_total]
                             /\ j # i =>
                                    \/ /\ i.party_name = t.party_name
                                       /\ StrictlyAfter(i, t.date,
                                                        t.invoice_number)
                                       /\ ~\E u \in invoices' :
                                              /\ u.id = t.id
                                              /\ u.party_name = t.party_name
                                    \/ \E u \in invoices' :
                                           /\ u.id = t.id
                                           /\ i.party_name = u.party_name
                                           /\ StrictlyAfter(i, u.date,
                                                            u.invoice_number)
                             /\ invoice_items'[j.id] = invoice_items[i.id]
                  /\ Cardinality(invoices' \ {u \in invoices' : u.id = t.id})
                     = Cardinality(invoices) - 1
                  /\ payments' = payments
                  /\ \A p \in DOMAIN parties :
                         p \in DOMAIN parties' /\ parties'[p] = parties[p]
      ]_vars

\* an update moved an invoice to another party: of the old party, the
\* invoice on the old cutoff kept its balance and a later one was rewritten
C26_Witness ==
    /\ resp.op = "update" /\ resp.status = 200
    /\ \E j, a, b \in invoices :
           /\ j.invoice_number = resp.num
           /\ a.party_name # j.party_name
           /\ b.party_name = a.party_name
           /\ a.date = j.date
           /\ CastInt(a.invoice_number) = CastInt(j.invoice_number)
           /\ a.previous_balance > 0
           /\ StrictlyAfter(b, j.date, j.invoice_number)
           /\ b.id > j.id
           /\ b.previous_balance = 0

(***************************************************************************)
(* Quantities of a deduction.                                              *)
(***************************************************************************)
\* the total remaining quantity of a product
QuantityOf(S, product) ==
    SumQuantity({b \in S : b.product_name = product})

\* C27: after a successful deduction the remaining quantity of every product
\* has decreased by exactly the total quantity the call requested of it (a
\* request is deducted in full, never in part), and the batches of a product
\* the call requests nothing of are unchanged.
C27_DeductsExactlyRequested ==
    [][(resp'.op = "deduct" /\ resp'.status = 200)
       => /\ {b.id : b \in stock'} = {b.id : b \in stock}
          /\ \A p \in ProductNames :
                 /\ QuantityOf(stock', p)
                    = QuantityOf(stock, p) - Requested(prior'.items, p)
                 /\ Requested(prior'.items, p) = 0
                    => {b \in stock' : b.product_name = p}
                       = {b \in stock : b.product_name = p}
      ]_vars

\* 3 taken of a batch of 5 of one product while the batch of the other
\* product, which the call does not name, still holds 5
C27_Witness ==
    /\ resp.op = "deduct" /\ resp.status = 200
    /\ Requested(prior.items, "Ghee") = 3
    /\ \A k \in 1..Len(prior.items) : prior.items[k].productName = "Ghee"
    /\ QuantityOf(stock, "Ghee") = 2
    /\ QuantityOf(stock, "Oil") = 5

\* C28: the requests of one call for the same product are checked one after
\* the other against the stock the earlier ones left.  The call succeeds
\* exactly when, for every product, the total remaining quantity is at least
\* the sum of the call's requests for it; otherwise the call fails, no batch
\* changes, and the first request of a product that does not fit is reported
\* with the quantity left by the requests before it.
C28_RequestsSeeEarlierOnes ==
    [][resp'.op = "deduct"
       => LET items == prior'.items
          IN  /\ resp'.status = 200
                 <=> \A p \in ProductNames :
                         Requested(items, p) <= QuantityOf(stock, p)
              /\ resp'.status # 200 => stock' = stock
              /\ \A k \in 1..Len(items) :
                     LET p == items[k].productName
                         before == Requested(SubSeq(items, 1, k - 1), p)
                     IN  (/\ items[k].qty > 0
                          /\ before <= QuantityOf(stock, p)
                          /\ before + items[k].qty > QuantityOf(stock, p))
                         => \E e \in 1..Len(resp'.errors) :
                                resp'.errors[e]
                                    = [product |-> p,
                                       available |->
                                           QuantityOf(stock, p) - before,
                                       required |-> items[k].qty]
      ]_vars

\* two requests of 3 for a product that holds 5: the second one is refused
\* with 2 available and the product still holds 5
C28_Witness ==
    /\ resp.op = "deduct" /\ resp.status = 400
    /\ Len(prior.items) = 2
    /\ prior.items[1] = prior.items[2]
    /\ prior.items[1].qty = 3
    /\ QuantityOf(stock, prior.items[1].productName) = 5
    /\ Len(resp.errors) = 1
    /\ resp.errors[1].available = 2
    /\ resp.errors[1].required = 3

(***************************************************************************)
(* The audit log of opening balances and the item rows.                    *)
(***************************************************************************)
\* the audit rows of party p, in creation order
AuditRows(p) ==
    LET OfParty(a) == a.party = p
    IN  SelectSeq(adjustments, OfParty)

\* C29: the audit rows of each party form a chain in creation order: the
\* first row's old_balance is 0, each later row's old_balance is the
\* new_balance of the row before it, and the last row's new_balance is the
\* party's current opening balance; a party with no audit row has opening
\* balance 0.
C29_AuditChain ==
    \A p \in PartyNames :
        LET rows == AuditRows(p)
        IN  /\ rows # <<>>
               => /\ rows[1].old_balance = 0
                  /\ \A k \in 2..Len(rows) :
                         rows[k].old_balance = rows[k - 1].new_balance
                  /\ p \in DOMAIN parties
                  /\ parties[p] = rows[Len(rows)].new_balance
            /\ (rows = <<>> /\ p \in DOMAIN parties) => parties[p] = 0

\* a party adjusted twice, to 0.050 and then to 0.054, and another party
\* that exists and was never adjusted
C29_Witness ==
    \E p, q \in PartyNames :
        /\ Len(AuditRows(p)) = 2
        /\ AuditRows(p)[2].old_balance = 50
        /\ AuditRows(p)[2].new_balance = 54
        /\ parties[p] = 54
        /\ q \in DOMAIN parties
        /\ AuditRows(q) = <<>>

====
